---- MODULE Spec2Model ----
(***************************************************************************)
(* Model of the AI Offer Creator service (src/app.py): the generate-offers *)
(* handler, the call to the drafting service, the post-processing of the   *)
(* draft, and the PDF export handler.                                      *)
(*                                                                         *)
(* Python values are modelled as follows.                                  *)
(*   dict            a function whose DOMAIN is the set of keys present    *)
(*   None            the string NoneVal (for dict.get misses on text keys) *)
(*   JSON scalar     a tagged record built by JNum / JStr / JNull          *)
(*   str used as a   a sequence of one-character strings, so that float()  *)
(*   number          and int() really parse it                             *)
(*   a call's result Ok(v) or Raise(message); message is str(exception)    *)
(* Money amounts are whole dollars.                                        *)
(***************************************************************************)
EXTENDS FiniteSets, Integers, Sequences, TLC

VARIABLES pc, request, inputs, prompt, draft_calls, draft, response,
          export_pc, export_response, catalog, strategies_response

vars == <<pc, request, inputs, prompt, draft_calls, draft, response,
          export_pc, export_response, catalog, strategies_response>>

-----------------------------------------------------------------------------
(* Bounds of the model *)

MaxClock == 2

Sessions == {"s1"}
Clock == 1..MaxClock

-----------------------------------------------------------------------------
(* Python primitives *)

NoneVal == "<None>"

Ok(v) == [ok |-> TRUE, val |-> v, err |-> ""]
Raise(msg) == [ok |-> FALSE, val |-> 0, err |-> msg]

Get(d, k, default) == IF k \in DOMAIN d THEN d[k] ELSE default

Put(d, k, v) == [x \in (DOMAIN d) \cup {k} |-> IF x = k THEN v ELSE d[x]]

Repr(s) == IF s = NoneVal THEN "None" ELSE "'" \o s \o "'"

GetItem(d, k) == IF k \in DOMAIN d THEN Ok(d[k]) ELSE Raise(Repr(k))

JNum(n) == [t |-> "num", n |-> n, s |-> <<>>]
JStr(cs) == [t |-> "str", n |-> 0, s |-> cs]
JNull == [t |-> "null", n |-> 0, s |-> <<>>]

DigitChars == <<"0", "1", "2", "3", "4", "5", "6", "7", "8", "9">>

IsDigit(c) == \E i \in 1..10 : DigitChars[i] = c

DigitVal(c) == (CHOOSE i \in 1..10 : DigitChars[i] = c) - 1

RECURSIVE JoinChars(_)
JoinChars(cs) == IF cs = <<>> THEN "" ELSE Head(cs) \o JoinChars(Tail(cs))

RECURSIVE ParseDigits(_, _)
ParseDigits(cs, acc) ==
    IF cs = <<>> THEN acc
    ELSE ParseDigits(Tail(cs), 10 * acc + DigitVal(Head(cs)))

IsNumeral(cs) ==
    LET body == IF cs # <<>> /\ Head(cs) = "-" THEN Tail(cs) ELSE cs
    IN  body # <<>> /\ \A i \in 1..Len(body) : IsDigit(body[i])

ParseNumeral(cs) ==
    IF Head(cs) = "-" THEN 0 - ParseDigits(Tail(cs), 0) ELSE ParseDigits(cs, 0)

to_float(v) ==
    CASE v.t = "num" -> Ok(v.n)
      [] v.t = "str" ->
            IF IsNumeral(v.s) THEN Ok(ParseNumeral(v.s))
            ELSE Raise("could not convert string to float: '" \o JoinChars(v.s) \o "'")
      [] OTHER -> Raise("float() argument must be a string or a real number, not 'NoneType'")

to_int(v) ==
    CASE v.t = "num" -> Ok(v.n)
      [] v.t = "str" ->
            IF IsNumeral(v.s) THEN Ok(ParseNumeral(v.s))
            ELSE Raise("invalid literal for int() with base 10: '" \o JoinChars(v.s) \o "'")
      [] OTHER -> Raise("int() argument must be a string, a bytes-like object or a real number, not 'NoneType'")

RECURSIVE NatToStr(_)
NatToStr(n) ==
    IF n < 10 THEN DigitChars[n + 1]
    ELSE NatToStr(n \div 10) \o DigitChars[(n % 10) + 1]

IntToStr(n) == IF n < 0 THEN "-" \o NatToStr(0 - n) ELSE NatToStr(n)

Pad3(n) ==
    IF n < 10 THEN "00" \o NatToStr(n)
    ELSE IF n < 100 THEN "0" \o NatToStr(n)
    ELSE NatToStr(n)

RECURSIVE GroupThousands(_)
GroupThousands(n) ==
    IF n < 1000 THEN NatToStr(n)
    ELSE GroupThousands(n \div 1000) \o "," \o Pad3(n % 1000)

FormatMoney(n) == IF n < 0 THEN "-" \o GroupThousands(0 - n) ELSE GroupThousands(n)

isoformat(t) == "2025-01-0" \o NatToStr(t) \o "T09:00:00"

-----------------------------------------------------------------------------
(* Strategy catalog *)

STRATEGIES ==
    [cash |->
        [name |-> "All Cash",
         description |-> "Traditional cash purchase - fastest and simplest",
         when_to_use |-> "High motivation, needs speed, wants certainty",
         pros |-> <<"Fastest close", "No financing contingencies", "Simplest transaction">>,
         cons |-> <<"Requires capital", "Usually lowest price", "Limited flexibility">>],
     subject_to |->
        [name |-> "Subject-To (Take Over Payments)",
         description |-> "Take over existing mortgage payments without formal assumption",
         when_to_use |-> "Seller has equity, good loan terms, needs debt relief",
         pros |-> <<"Low cash needed", "Leverage existing financing", "Can offer higher price">>,
         cons |-> <<"Due-on-sale risk", "Requires seller trust", "More complex">>],
     lease_option |->
        [name |-> "Lease Option",
         description |-> "Lease property with option to purchase later",
         when_to_use |-> "Low cash available, seller flexible on timing, needs income",
         pros |-> <<"Minimal cash needed", "Control without ownership", "Time to improve property">>,
         cons |-> <<"No immediate ownership", "Monthly payments", "Seller retains title">>],
     seller_financing |->
        [name |-> "Seller Financing",
         description |-> "Seller acts as the bank and carries a note",
         when_to_use |-> "Seller owns free and clear, wants income stream, flexible",
         pros |-> <<"Creative terms possible", "Lower down payment", "Seller gets interest">>,
         cons |-> <<"Seller retains lien", "Monthly payments", "Requires seller trust">>],
     hybrid |->
        [name |-> "Hybrid (Cash + Terms)",
         description |-> "Combination of cash and creative financing",
         when_to_use |-> "Moderate motivation, some cash available, needs flexibility",
         pros |-> <<"Balanced approach", "Flexible structure", "Appeals to more sellers">>,
         cons |-> <<"More complex", "Requires negotiation", "Medium cash needed">>]]

-----------------------------------------------------------------------------
(* generate_offers: extraction and normalization of the request fields *)

EmptyDict == [k \in {} |-> 0]

FirstError(results) ==
    LET bad == {i \in 1..Len(results) : ~results[i].ok}
    IN  IF bad = {} THEN ""
        ELSE results[CHOOSE i \in bad : \A j \in bad : i <= j].err

\* Variant of extract_inputs that keeps the two weights complementary, as the
\* page's sliders do: weight2 is rewritten to 100 - weight1.
extract_inputs_complementary(data) ==
    LET weight1 == to_int(Get(data, "weight1", JNum(50)))
        weight2 == to_int(Get(data, "weight2", JNum(50)))
        arv == to_float(Get(data, "arv", JNum(0)))
        repairs == to_float(Get(data, "repairs", JNum(0)))
        mortgage_balance == to_float(Get(data, "mortgage_balance", JNum(0)))
        monthly_payment == to_float(Get(data, "monthly_payment", JNum(0)))
        motivation_score == to_int(Get(data, "motivation_score", JNum(5)))
        cash_needed == to_float(Get(data, "cash_needed", JNum(0)))
        max_offer_percent == to_float(Get(data, "max_offer_percent", JNum(70)))
        min_profit == to_float(Get(data, "min_profit", JNum(20000)))
        available_cash == to_float(Get(data, "available_cash", JNum(10000)))
        conversions == <<weight1, weight2, arv, repairs, mortgage_balance,
                         monthly_payment, motivation_score, cash_needed,
                         max_offer_percent, min_profit, available_cash>>
    IN  IF FirstError(conversions) # "" THEN Raise(FirstError(conversions))
        ELSE Ok([strategy1 |-> Get(data, "strategy1", NoneVal),
                 strategy2 |-> Get(data, "strategy2", NoneVal),
                 weight1 |-> weight1.val,
                 weight2 |-> 100 - weight1.val,
                 property_data |->
                    [arv |-> arv.val,
                     repairs |-> repairs.val,
                     mortgage_balance |-> mortgage_balance.val,
                     monthly_payment |-> monthly_payment.val,
                     condition |-> Get(data, "condition", JNum(5))],
                 seller_data |->
                    [motivation_score |-> motivation_score.val,
                     pain_point |-> Get(data, "pain_point", JStr(<<>>)),
                     timeline |-> Get(data, "timeline", JStr(<<>>)),
                     cash_needed |-> cash_needed.val,
                     priorities |-> Get(data, "priorities", <<>>)],
                 investor_data |->
                    [max_offer_percent |-> max_offer_percent.val,
                     min_profit |-> min_profit.val,
                     available_cash |-> available_cash.val,
                     exit_strategy |-> Get(data, "exit_strategy", JStr(<<"f", "l", "i", "p">>))],
                 advanced_mode |-> Get(data, "advanced_mode", FALSE),
                 advanced_settings |-> Get(data, "advanced_settings", EmptyDict)])

extract_inputs(data) ==
    LET weight1 == to_int(Get(data, "weight1", JNum(50)))
        weight2 == to_int(Get(data, "weight2", JNum(50)))
        arv == to_float(Get(data, "arv", JNum(0)))
        repairs == to_float(Get(data, "repairs", JNum(0)))
        mortgage_balance == to_float(Get(data, "mortgage_balance", JNum(0)))
        monthly_payment == to_float(Get(data, "monthly_payment", JNum(0)))
        motivation_score == to_int(Get(data, "motivation_score", JNum(5)))
        cash_needed == to_float(Get(data, "cash_needed", JNum(0)))
        max_offer_percent == to_float(Get(data, "max_offer_percent", JNum(70)))
        min_profit == to_float(Get(data, "min_profit", JNum(20000)))
        available_cash == to_float(Get(data, "available_cash", JNum(10000)))
        conversions == <<weight1, weight2, arv, repairs, mortgage_balance,
                         monthly_payment, motivation_score, cash_needed,
                         max_offer_percent, min_profit, available_cash>>
    IN  IF FirstError(conversions) # "" THEN Raise(FirstError(conversions))
        ELSE Ok([strategy1 |-> Get(data, "strategy1", NoneVal),
                 strategy2 |-> Get(data, "strategy2", NoneVal),
                 weight1 |-> weight1.val,
                 weight2 |-> weight2.val,
                 property_data |->
                    [arv |-> arv.val,
                     repairs |-> repairs.val,
                     mortgage_balance |-> mortgage_balance.val,
                     monthly_payment |-> monthly_payment.val,
                     condition |-> Get(data, "condition", JNum(5))],
                 seller_data |->
                    [motivation_score |-> motivation_score.val,
                     pain_point |-> Get(data, "pain_point", JStr(<<>>)),
                     timeline |-> Get(data, "timeline", JStr(<<>>)),
                     cash_needed |-> cash_needed.val,
                     priorities |-> Get(data, "priorities", <<>>)],
                 investor_data |->
                    [max_offer_percent |-> max_offer_percent.val,
                     min_profit |-> min_profit.val,
                     available_cash |-> available_cash.val,
                     exit_strategy |-> Get(data, "exit_strategy", JStr(<<"f", "l", "i", "p">>))],
                 advanced_mode |-> Get(data, "advanced_mode", FALSE),
                 advanced_settings |-> Get(data, "advanced_settings", EmptyDict)])

-----------------------------------------------------------------------------
(* generate_strategic_offers, first half: the prompt *)

FormatValue(v) ==
    CASE v.t = "num" -> IntToStr(v.n)
      [] v.t = "str" -> JoinChars(v.s)
      [] OTHER -> "None"

RECURSIVE JoinComma(_)
JoinComma(items) ==
    IF items = <<>> THEN ""
    ELSE IF Len(items) = 1 THEN Head(items)
    ELSE Head(items) \o ", " \o JoinComma(Tail(items))

WeightLabel(w) ==
    IF w > 50 THEN "MORE attractive"
    ELSE IF w < 50 THEN "LESS attractive"
    ELSE "EQUALLY attractive"

OfferLine(letter, name, w) ==
    "Offer " \o letter \o ": " \o name \o " (Weight: " \o IntToStr(w) \o "% - "
        \o WeightLabel(w) \o ")"

prompt_text(a, name1, name2) ==
    [arv |-> "$" \o FormatMoney(a.property_data.arv),
     repairs |-> "$" \o FormatMoney(a.property_data.repairs),
     mortgage |-> "$" \o FormatMoney(a.property_data.mortgage_balance),
     monthly_payment |-> "$" \o FormatMoney(a.property_data.monthly_payment),
     condition |-> FormatValue(a.property_data.condition) \o "/10",
     motivation |-> IntToStr(a.seller_data.motivation_score) \o "/10",
     pain_point |-> FormatValue(a.seller_data.pain_point),
     timeline |-> FormatValue(a.seller_data.timeline),
     cash_needed |-> "$" \o FormatMoney(a.seller_data.cash_needed),
     priorities |-> JoinComma(a.seller_data.priorities),
     max_offer |-> IntToStr(a.investor_data.max_offer_percent) \o ".0% of ARV",
     min_profit |-> "$" \o FormatMoney(a.investor_data.min_profit),
     available_cash |-> "$" \o FormatMoney(a.investor_data.available_cash),
     exit_strategy |-> FormatValue(a.investor_data.exit_strategy),
     offer_a |-> OfferLine("A", name1, a.weight1),
     offer_b |-> OfferLine("B", name2, a.weight2),
     strategy_a |-> a.strategy1,
     strategy_b |-> a.strategy2]

\* Variant of build_prompt that falls back to the raw tag when the strategy
\* is not in the catalog, instead of raising.
build_prompt_lenient(a) ==
    Ok(prompt_text(a, Get(catalog, a.strategy1, [name |-> a.strategy1]).name,
                      Get(catalog, a.strategy2, [name |-> a.strategy2]).name))

build_prompt(a) ==
    LET info1 == GetItem(catalog, a.strategy1)
        info2 == GetItem(catalog, a.strategy2)
    IN  IF ~info1.ok THEN Raise(info1.err)
        ELSE IF ~info2.ok THEN Raise(info2.err)
        ELSE Ok(prompt_text(a, info1.val.name, info2.val.name))

-----------------------------------------------------------------------------
(* generate_strategic_offers, second half: parsing the reply, metadata *)

json_loads(content) ==
    CASE content.kind = "object" -> Ok(content.obj)
      [] content.kind = "array" -> Ok(content.obj)
      [] content.kind = "none" ->
            Raise("the JSON object must be str, bytes or bytearray, not NoneType")
      [] OTHER -> Raise("Expecting value: line 1 column 1 (char 0)")

WithOffers(result, F(_)) ==
    [k \in DOMAIN result |->
        IF k \in {"offer_a", "offer_b"} THEN F(result[k]) ELSE result[k]]

Stamp(result, property_data, seller_data, now) ==
    Put(Put(Put(result, "generated_at", isoformat(now)),
            "property_arv", property_data.arv),
        "seller_motivation", seller_data.motivation_score)

\* Variant of add_metadata that prepends a shortfall warning to the
\* investor notes of a cash offer each time it runs.
add_metadata_warning(result, property_data, seller_data, now) ==
    Stamp(WithOffers(result,
            LAMBDA offer :
                IF offer.strategy = "cash"
                      /\ 98 * Get(offer, "purchase_price", 0)
                            < 100 * property_data.mortgage_balance
                THEN [offer EXCEPT !.investor_notes = "WARNING: shortfall. " \o @]
                ELSE offer),
          property_data, seller_data, now)

\* Variant of add_metadata that attaches a viability flag to every offer,
\* whatever its strategy.
add_metadata_flag_all(result, property_data, seller_data, now) ==
    Stamp(WithOffers(result, LAMBDA offer : Put(offer, "viability_flag", "VIABLE")),
          property_data, seller_data, now)

\* Variant of add_metadata that writes the default price 0 into a cash
\* offer drafted without purchase_price.
add_metadata_default_price(result, property_data, seller_data, now) ==
    Stamp(WithOffers(result,
            LAMBDA offer :
                IF offer.strategy = "cash" /\ "purchase_price" \notin DOMAIN offer
                THEN Put(offer, "purchase_price", 0)
                ELSE offer),
          property_data, seller_data, now)

\* Variant of add_metadata that recomputes a cash offer's cash_at_closing
\* from the closing-cost figure carried by PropertyData when there is one.
add_metadata_supplied_costs(result, property_data, seller_data, now) ==
    Stamp(WithOffers(result,
            LAMBDA offer :
                IF offer.strategy = "cash" /\ "purchase_price" \in DOMAIN offer
                THEN [offer EXCEPT !.cash_at_closing =
                        IF "estimated_closing_costs" \in DOMAIN property_data
                        THEN offer.purchase_price - property_data.mortgage_balance
                                - property_data.estimated_closing_costs
                        ELSE (98 * offer.purchase_price) \div 100
                                - property_data.mortgage_balance]
                ELSE offer),
          property_data, seller_data, now)

\* Variant of add_metadata that keeps a metadata key the reply already
\* carries instead of overwriting it.
add_metadata_keep_existing(result, property_data, seller_data, now) ==
    LET SetDefault(d, k, v) == IF k \in DOMAIN d THEN d ELSE Put(d, k, v)
    IN  SetDefault(SetDefault(SetDefault(result, "generated_at", isoformat(now)),
                              "property_arv", property_data.arv),
                   "seller_motivation", seller_data.motivation_score)

add_metadata(result, property_data, seller_data, now) ==
    Put(Put(Put(result, "generated_at", isoformat(now)),
            "property_arv", property_data.arv),
        "seller_motivation", seller_data.motivation_score)

parse_response(content, property_data, seller_data, now) ==
    LET parsed == json_loads(content)
    IN  IF ~parsed.ok THEN Raise(parsed.err)
        ELSE IF content.kind # "object"
             THEN Raise("list indices must be integers or slices, not str")
        ELSE Ok(add_metadata(parsed.val, property_data, seller_data, now))

jsonify_ok(body) == [status |-> 200, body |-> body]

\* Variant of jsonify_error that returns the error body without the status
\* code, which the framework then sends as 200.
jsonify_error_no_status(msg) == [status |-> 200, body |-> [error |-> msg]]

jsonify_error(msg) == [status |-> 500, body |-> [error |-> msg]]

NoResponse == [status |-> 0, body |-> EmptyDict]

-----------------------------------------------------------------------------
(* export_pdf and generate_pdf *)

strftime_compact(t) == "2025010" \o NatToStr(t)

strftime_long(t) == "January 0" \o NatToStr(t) \o ", 2025"

Paragraph(text, style, colour) ==
    [kind |-> "Paragraph", text |-> text, style |-> style, colour |-> colour, rows |-> <<>>]

Spacer(height) ==
    [kind |-> "Spacer", text |-> height, style |-> "", colour |-> "", rows |-> <<>>]

Table(rows) ==
    [kind |-> "Table", text |-> "", style |-> "", colour |-> "", rows |-> rows]

title_colour(format_type) == IF format_type = "branded" THEN "#2e7d32" ELSE "#1a1a1a"

heading_colour(format_type) == IF format_type = "branded" THEN "#2e7d32" ELSE "#333333"

title_block(format_type, now) ==
    IF format_type = "branded"
    THEN << Paragraph("AI Offer Creator - Real Estate Commando", "CustomTitle",
                      title_colour(format_type)),
            Paragraph("Generated: " \o strftime_long(now), "Normal", ""),
            Spacer("0.3") >>
    ELSE << Paragraph("Property Offer Comparison", "CustomTitle",
                      title_colour(format_type)),
            Spacer("0.2") >>

OfferFieldsRead ==
    <<"headline", "purchase_price", "cash_at_closing", "payment_structure",
      "timeline_days", "seller_benefits">>

FirstMissing(offer) ==
    LET missing == {i \in 1..Len(OfferFieldsRead) : OfferFieldsRead[i] \notin DOMAIN offer}
    IN  IF missing = {} THEN ""
        ELSE OfferFieldsRead[CHOOSE i \in missing : \A j \in missing : i <= j]

\* Variant of offer_block that also prints the investor notes of an offer
\* that has them.
offer_block_with_notes(offers, key, letter, format_type) ==
    LET offer == GetItem(offers, key)
    IN  IF ~offer.ok THEN Raise(offer.err)
        ELSE IF FirstMissing(offer.val) # "" THEN Raise(Repr(FirstMissing(offer.val)))
        ELSE Ok(<< Paragraph("Option " \o letter \o ": " \o offer.val.headline,
                             "CustomHeading", heading_colour(format_type)),
                   Table(<< <<"Purchase Price:", "$" \o FormatMoney(offer.val.purchase_price)>>,
                            <<"Cash at Closing:", "$" \o FormatMoney(offer.val.cash_at_closing)>>,
                            <<"Payment Structure:", offer.val.payment_structure>>,
                            <<"Closing Timeline:", IntToStr(offer.val.timeline_days) \o " days">> >>),
                   Spacer("0.2"),
                   Paragraph("Why This Works:", "Heading3", "") >>
                \o [i \in 1..Len(offer.val.seller_benefits) |->
                        Paragraph("* " \o offer.val.seller_benefits[i], "Normal", "")]
                \o (IF "investor_notes" \in DOMAIN offer.val
                    THEN <<Paragraph(offer.val.investor_notes, "Normal", "")>>
                    ELSE <<>>))

offer_block(offers, key, letter, format_type) ==
    LET offer == GetItem(offers, key)
    IN  IF ~offer.ok THEN Raise(offer.err)
        ELSE IF FirstMissing(offer.val) # "" THEN Raise(Repr(FirstMissing(offer.val)))
        ELSE Ok(<< Paragraph("Option " \o letter \o ": " \o offer.val.headline,
                             "CustomHeading", heading_colour(format_type)),
                   Table(<< <<"Purchase Price:", "$" \o FormatMoney(offer.val.purchase_price)>>,
                            <<"Cash at Closing:", "$" \o FormatMoney(offer.val.cash_at_closing)>>,
                            <<"Payment Structure:", offer.val.payment_structure>>,
                            <<"Closing Timeline:", IntToStr(offer.val.timeline_days) \o " days">> >>),
                   Spacer("0.2"),
                   Paragraph("Why This Works:", "Heading3", "") >>
                \o [i \in 1..Len(offer.val.seller_benefits) |->
                        Paragraph("* " \o offer.val.seller_benefits[i], "Normal", "")])

generate_pdf(offers, format_type, now) ==
    LET block_a == offer_block(offers, "offer_a", "A", format_type)
        block_b == offer_block(offers, "offer_b", "B", format_type)
    IN  IF ~block_a.ok THEN Raise(block_a.err)
        ELSE IF ~block_b.ok THEN Raise(block_b.err)
        ELSE Ok(title_block(format_type, now) \o block_a.val \o <<Spacer("0.4")>>
                    \o block_b.val)

download_name(format_type, now) ==
    "offer_comparison_" \o (IF format_type = "pro" THEN "pro" ELSE "branded")
        \o "_" \o strftime_compact(now) \o ".pdf"

export_pdf(data, now) ==
    LET format_type == Get(data, "format", "branded")
        pdf_buffer ==
            IF "offers" \notin DOMAIN data
            THEN Raise("'NoneType' object is not subscriptable")
            ELSE generate_pdf(data.offers, format_type, now)
    IN  IF ~pdf_buffer.ok THEN jsonify_error(pdf_buffer.err)
        ELSE [status |-> 200,
              body |-> [pdf |-> pdf_buffer.val,
                        mimetype |-> "application/pdf",
                        download_name |-> download_name(format_type, now)]]

-----------------------------------------------------------------------------
(* Inputs: what a caller may post and what the drafting service may reply *)

JAbsent == [t |-> "absent", n |-> 0, s |-> <<>>]

PutIfPresent(d, k, v) == IF v.t = "absent" THEN d ELSE Put(d, k, v)

PutStrategy(d, k, v) == IF v = NoneVal THEN d ELSE Put(d, k, v)

StrategyChoices == {"cash", "subject_to", "bogus", NoneVal}

MortgageChoices ==
    {JAbsent, JNum(10), JNum(100000), JStr(<<"2", "6", "3", "0", "0", "0">>)}

ArvChoices == {JNum(300000), JStr(<<"n", "/", "a">>)}

MotivationChoices == {JAbsent, JNum(8)}

BaseRequest ==
    [strategy1 |-> "cash", strategy2 |-> "subject_to",
     arv |-> JNum(300000), mortgage_balance |-> JNum(263000)]

WeightPairs ==
    {<<JNum(80), JNum(80)>>, <<JNum(0), JNum(0)>>, <<JNum(80), JAbsent>>,
     <<JStr(<<"7", "0">>), JNum(30)>>}

ExtraFields ==
    {<<"mortgage_balance", JStr(<<"-", "5", "0", "0", "0">>)>>,
     <<"monthly_payment", JNum(0 - 850)>>,
     <<"min_profit", JStr(<<"l", "o", "t", "s">>)>>,
     <<"available_cash", JNull>>,
     <<"closing_costs", JNum(9000)>>}

ExtraRequests ==
    {PutIfPresent(PutIfPresent(BaseRequest, "weight1", w[1]), "weight2", w[2]) :
        w \in WeightPairs}
    \cup {Put(BaseRequest, f[1], f[2]) : f \in ExtraFields}

ProductRequests ==
    {PutStrategy(PutStrategy(
        PutIfPresent(PutIfPresent(PutIfPresent(EmptyDict,
            "arv", arv), "mortgage_balance", mb), "motivation_score", ms),
        "strategy1", s1), "strategy2", s2) :
        <<s1, s2, arv, mb, ms>> \in StrategyChoices \X StrategyChoices \X ArvChoices
                                     \X MortgageChoices \X MotivationChoices}

RawRequests == ProductRequests \cup ExtraRequests

DraftedOffer(strategy, price, cash) ==
    PutIfPresent(
        [strategy |-> strategy,
         headline |-> "A clean, fast close",
         cash_at_closing |-> cash,
         payment_structure |-> "Lump sum at closing",
         timeline_days |-> 14,
         terms |-> <<"As-is purchase", "No contingencies">>,
         seller_benefits |-> <<"Speed", "Certainty">>,
         presentation_script |-> "Mr. Seller, this option...",
         investor_notes |-> "Hold firm on price"],
        "purchase_price", price)

UnwrapPrice(offer) ==
    IF "purchase_price" \in DOMAIN offer
    THEN [offer EXCEPT !.purchase_price = offer.purchase_price.n]
    ELSE offer

DraftPrices == {JAbsent, JNum(10), JNum(268000), JNum(270000)}

DraftCash == {5000, 0 - 360}

DraftOffersA ==
    {UnwrapPrice(DraftedOffer(st, price, cash)) :
        <<st, price, cash>> \in (DOMAIN STRATEGIES) \X DraftPrices \X DraftCash}

DraftOffersB ==
    {UnwrapPrice(DraftedOffer("cash", JNum(270000), 5000)),
     UnwrapPrice(DraftedOffer("subject_to", JNum(268000), 0 - 360))}

DraftEnvelope ==
    [comparison_intro |-> "Here are two ways we can do this.",
     closing_question |-> "Which option works better for you?"]

DraftObjects ==
    {Put(Put(DraftEnvelope, "offer_a", a), "offer_b", b) :
        <<a, b>> \in DraftOffersA \X DraftOffersB}
    \cup {Put(DraftEnvelope, "offer_a", a) : a \in DraftOffersA}
    \cup {Put(DraftEnvelope, "offer_b", b) : b \in DraftOffersB}
    \cup {DraftEnvelope}
    \cup {Put(Put(Put(Put(Put(DraftEnvelope, "offer_a", a), "offer_b", b),
                       "property_arv", 1), "seller_motivation", 1),
               "generated_at", "yesterday") :
            <<a, b>> \in DraftOffersB \X DraftOffersB}

DraftContents ==
    {[kind |-> "object", obj |-> o] : o \in DraftObjects}
    \cup {[kind |-> k, obj |-> EmptyDict] : k \in {"array", "none", "invalid"}}

NoContent == [kind |-> "pending", obj |-> EmptyDict]

DraftingFailures == {"Connection error.", "Request timed out."}

ExportFormats == {"branded", "pro", "fancy", NoneVal}

-----------------------------------------------------------------------------
(* The handlers as steps of a session *)

Init ==
    /\ pc = [s \in Sessions |-> "idle"]
    /\ request = [s \in Sessions |-> EmptyDict]
    /\ inputs = [s \in Sessions |-> EmptyDict]
    /\ prompt = [s \in Sessions |-> EmptyDict]
    /\ draft_calls = [s \in Sessions |-> 0]
    /\ draft = [s \in Sessions |-> NoContent]
    /\ response = [s \in Sessions |-> NoResponse]
    /\ export_pc = [s \in Sessions |-> "idle"]
    /\ export_response = [s \in Sessions |-> NoResponse]
    /\ catalog = STRATEGIES
    /\ strategies_response = [s \in Sessions |-> NoResponse]

\* Variant of get_strategies that hands out the catalog and drops the last
\* entry from the shared dictionary while doing so.
get_strategies_popping(cat) ==
    [response |-> jsonify_ok(cat),
     catalog |-> [k \in (DOMAIN cat) \ {"hybrid"} |-> cat[k]]]

get_strategies(cat) == [response |-> jsonify_ok(cat), catalog |-> cat]

get_strategies_step(s) ==
    /\ strategies_response[s] = NoResponse
    /\ LET out == get_strategies(catalog)
       IN  /\ strategies_response' = [strategies_response EXCEPT ![s] = out.response]
           /\ catalog' = out.catalog
    /\ UNCHANGED <<pc, request, inputs, prompt, draft_calls, draft, response,
                   export_pc, export_response>>

generate_offers_except(e) == jsonify_error(e)

generate_offers(s, data) ==
    /\ pc[s] = "idle"
    /\ request' = [request EXCEPT ![s] = data]
    /\ LET extracted == extract_inputs(data)
           built == IF extracted.ok THEN build_prompt(extracted.val)
                    ELSE Raise(extracted.err)
       IN  /\ inputs' = [inputs EXCEPT ![s] =
                            IF extracted.ok THEN extracted.val ELSE EmptyDict]
           /\ IF built.ok
              THEN /\ prompt' = [prompt EXCEPT ![s] = built.val]
                   /\ draft_calls' = [draft_calls EXCEPT ![s] = @ + 1]
                   /\ pc' = [pc EXCEPT ![s] = "drafting"]
                   /\ UNCHANGED response
              ELSE /\ response' = [response EXCEPT ![s] = generate_offers_except(built.err)]
                   /\ pc' = [pc EXCEPT ![s] = "done"]
                   /\ UNCHANGED <<prompt, draft_calls>>
    /\ UNCHANGED <<draft, export_pc, export_response, catalog, strategies_response>>

\* Variant of call_arguments in which the extracted inputs are kept in one
\* module-level slot that every request in flight shares.
call_arguments_shared(s) ==
    inputs[CHOOSE t \in DOMAIN inputs : inputs[t] # EmptyDict]

\* The arguments generate_offers passes to generate_strategic_offers: locals
\* of the handler's own call frame.
call_arguments(s) == inputs[s]

\* Variant of arguments_after_call in which the call writes a clamped
\* motivation score back into the seller dictionary it was handed.
arguments_after_call_clamped(a) ==
    [a EXCEPT !.seller_data = Put(a.seller_data, "motivation_score", 10)]

\* The dictionaries generate_offers built, as generate_strategic_offers
\* leaves them: they are passed by reference and the callee only formats and
\* subscripts them.
arguments_after_call(a) == a

create_returns(s, content, now) ==
    /\ pc[s] = "drafting"
    /\ draft' = [draft EXCEPT ![s] = content]
    /\ inputs' = [inputs EXCEPT ![s] = arguments_after_call(call_arguments(s))]
    /\ LET result == parse_response(content, call_arguments(s).property_data,
                                    call_arguments(s).seller_data, now)
       IN  response' = [response EXCEPT ![s] =
                            IF result.ok THEN jsonify_ok(result.val)
                            ELSE generate_offers_except(result.err)]
    /\ pc' = [pc EXCEPT ![s] = "done"]
    /\ UNCHANGED <<request, prompt, draft_calls, export_pc, export_response,
                   catalog, strategies_response>>

\* Variant of after_create_raises that calls the drafting service again
\* after a first failure.
after_create_raises_retry(calls, cause) ==
    IF calls < 2
    THEN [pc |-> "drafting", calls |-> calls + 1, response |-> NoResponse]
    ELSE [pc |-> "done", calls |-> calls, response |-> generate_offers_except(cause)]

after_create_raises(calls, cause) ==
    [pc |-> "done", calls |-> calls, response |-> generate_offers_except(cause)]

create_raises(s, cause) ==
    /\ pc[s] = "drafting"
    /\ draft' = [draft EXCEPT ![s] = [kind |-> "raised", obj |-> [cause |-> cause]]]
    /\ LET after == after_create_raises(draft_calls[s], cause)
       IN  /\ response' = [response EXCEPT ![s] = after.response]
           /\ draft_calls' = [draft_calls EXCEPT ![s] = after.calls]
           /\ pc' = [pc EXCEPT ![s] = after.pc]
    /\ UNCHANGED <<request, inputs, prompt, export_pc, export_response,
                   catalog, strategies_response>>

ExportRequest(offers, format) == PutStrategy([offers |-> offers], "format", format)

export_pdf_step(s, format, now) ==
    /\ pc[s] = "done"
    /\ response[s].status = 200
    /\ export_pc[s] = "idle"
    /\ export_response' = [export_response EXCEPT ![s] =
                                export_pdf(ExportRequest(response[s].body, format), now)]
    /\ export_pc' = [export_pc EXCEPT ![s] = "done"]
    /\ UNCHANGED <<pc, request, inputs, prompt, draft_calls, draft, response,
                   catalog, strategies_response>>

Next ==
    \E s \in Sessions :
        \/ \E data \in RawRequests : generate_offers(s, data)
        \/ \E content \in DraftContents, now \in Clock : create_returns(s, content, now)
        \/ \E cause \in DraftingFailures : create_raises(s, cause)
        \/ \E format \in ExportFormats, now \in Clock : export_pdf_step(s, format, now)
        \/ get_strategies_step(s)

Spec == Init /\ [][Next]_vars

\* Two requests in flight at once: the development server handles each
\* request on a thread of its own, so the steps of two calls of
\* generate_offers interleave freely.
SessionPair == {"s1", "s2"}

PairRequests ==
    {BaseRequest,
     [strategy1 |-> "lease_option", strategy2 |-> "hybrid",
      arv |-> JNum(180000), motivation_score |-> JNum(9)],
     [strategy1 |-> "cash", strategy2 |-> "bogus", arv |-> JNum(300000)]}

PairDrafts ==
    {[kind |-> "object",
      obj |-> Put(Put(DraftEnvelope, "offer_a", a), "offer_b", b)] :
        <<a, b>> \in DraftOffersB \X DraftOffersB}
    \cup {[kind |-> "invalid", obj |-> EmptyDict]}

InitPair ==
    /\ pc = [s \in SessionPair |-> "idle"]
    /\ request = [s \in SessionPair |-> EmptyDict]
    /\ inputs = [s \in SessionPair |-> EmptyDict]
    /\ prompt = [s \in SessionPair |-> EmptyDict]
    /\ draft_calls = [s \in SessionPair |-> 0]
    /\ draft = [s \in SessionPair |-> NoContent]
    /\ response = [s \in SessionPair |-> NoResponse]
    /\ export_pc = [s \in SessionPair |-> "idle"]
    /\ export_response = [s \in SessionPair |-> NoResponse]
    /\ catalog = STRATEGIES
    /\ strategies_response = [s \in SessionPair |-> NoResponse]

NextPair ==
    \E s \in SessionPair :
        \/ \E data \in PairRequests : generate_offers(s, data)
        \/ \E content \in PairDrafts, now \in Clock : create_returns(s, content, now)
        \/ \E cause \in DraftingFailures : create_raises(s, cause)

SpecPair == InitPair /\ [][NextPair]_vars

-----------------------------------------------------------------------------
(* Vocabulary of the properties *)

Slots == {"offer_a", "offer_b"}

NonCashStrategies == {"subject_to", "lease_option", "seller_financing", "hybrid"}

Returned(s) == pc[s] = "done" /\ response[s].status = 200

Rejected(s) == pc[s] = "done" /\ response[s].status = 500

DraftedSlots(s) ==
    IF draft[s].kind = "object" THEN Slots \cap DOMAIN draft[s].obj ELSE {}

ReturnedSlots(s) == IF Returned(s) THEN Slots \cap DOMAIN response[s].body ELSE {}

RoundHalfEven(num, den) ==
    LET q == num \div den
        r == num - q * den
    IN  IF 2 * r < den THEN q
        ELSE IF 2 * r > den THEN q + 1
        ELSE IF q % 2 = 0 THEN q ELSE q + 1

NetTimes100(offer, property_data) ==
    98 * Get(offer, "purchase_price", 0)
        - 100 * (property_data.mortgage_balance + Get(property_data, "arrears", 0))

ReconciledCash(offer, property_data) ==
    RoundHalfEven(NetTimes100(offer, property_data), 100)

Exported(s) == export_pc[s] = "done" /\ export_response[s].status = 200

ExportFailed(s) == export_pc[s] = "done" /\ export_response[s].status = 500

TablesOf(pdf) == SelectSeq(pdf, LAMBDA item : item.kind = "Table")

CashShown(s, slot) ==
    TablesOf(export_response[s].body.pdf)[IF slot = "offer_a" THEN 1 ELSE 2].rows[2][2]

-----------------------------------------------------------------------------
(* Properties *)

\* C1 (cash reconciliation): every cash-strategy offer handed back by
\* generate-offers carries cash_at_closing equal to
\* round(purchase_price - mortgage_balance - arrears - 0.02*purchase_price, 0),
\* whatever cash_at_closing the drafting service supplied.
C1_CashReconciled ==
    \A s \in Sessions : \A slot \in ReturnedSlots(s) :
        LET offer == response[s].body[slot]
        IN  (offer.strategy = "cash" /\ "purchase_price" \in DOMAIN offer)
                => offer.cash_at_closing
                       = ReconciledCash(offer, inputs[s].property_data)

\* C2 (viability consistency): every cash-strategy offer handed back is
\* flagged NOT_VIABLE exactly when the cash_at_closing written on it is < 0.
C2_ViabilityConsistent ==
    \A s \in Sessions : \A slot \in ReturnedSlots(s) :
        LET offer == response[s].body[slot]
        IN  offer.strategy = "cash"
                => ((Get(offer, "viability_flag", "") = "NOT_VIABLE")
                        <=> (offer.cash_at_closing < 0))

\* C3 (idempotence): running the post-drafting pass a second time over a
\* returned pair, with the same PropertyData, leaves every field of every
\* cash offer as the first pass left it.
C3_SecondPassIdentical ==
    \A s \in Sessions : \A slot \in ReturnedSlots(s) : \A now \in Clock :
        response[s].body[slot].strategy = "cash"
            => add_metadata(response[s].body, inputs[s].property_data,
                            inputs[s].seller_data, now)[slot]
                   = response[s].body[slot]

C3_Witness ==
    \E s \in Sessions : \E slot \in ReturnedSlots(s) :
        /\ response[s].body[slot].strategy = "cash"
        /\ "purchase_price" \in DOMAIN response[s].body[slot]
        /\ NetTimes100(response[s].body[slot], inputs[s].property_data) < 0
        /\ response[s].body[slot].investor_notes = "Hold firm on price"

\* C4 (non-interference): an offer drafted with strategy subject_to,
\* lease_option, seller_financing or hybrid is returned with exactly the
\* drafted fields and values: nothing recomputed, nothing added.
C4_NonCashUntouched ==
    \A s \in Sessions :
        Returned(s) =>
            \A slot \in DraftedSlots(s) :
                draft[s].obj[slot].strategy \in NonCashStrategies
                    => /\ slot \in DOMAIN response[s].body
                       /\ response[s].body[slot] = draft[s].obj[slot]

C4_Witness ==
    \E s \in Sessions :
        /\ Returned(s)
        /\ "offer_a" \in DraftedSlots(s)
        /\ draft[s].obj.offer_a.strategy = "lease_option"
        /\ "purchase_price" \in DOMAIN response[s].body.offer_a

\* C5 (validated before export): a cash-strategy offer of a returned pair
\* never reaches the exporter with a cash_at_closing that differs from the
\* recomputed value, so the exported sheet shows the recomputed figure.
C5_ExportShowsReconciled ==
    \A s \in Sessions :
        Exported(s) =>
            \A slot \in Slots :
                response[s].body[slot].strategy = "cash"
                    => CashShown(s, slot)
                           = "$" \o FormatMoney(ReconciledCash(response[s].body[slot],
                                                               inputs[s].property_data))

\* C6 (frame of cash validation): a cash offer is returned with strategy,
\* headline, purchase_price, payment_structure, timeline_days, terms and
\* seller_benefits exactly as drafted (present or absent alike).
FrameFields ==
    {"strategy", "headline", "purchase_price", "payment_structure",
     "timeline_days", "terms", "seller_benefits"}

C6_CashFrame ==
    \A s \in Sessions :
        Returned(s) =>
            \A slot \in DraftedSlots(s) :
                draft[s].obj[slot].strategy = "cash"
                    => /\ slot \in DOMAIN response[s].body
                       /\ \A f \in FrameFields :
                            /\ (f \in DOMAIN response[s].body[slot])
                                   <=> (f \in DOMAIN draft[s].obj[slot])
                            /\ f \in DOMAIN draft[s].obj[slot]
                                   => response[s].body[slot][f] = draft[s].obj[slot][f]

C6_Witness ==
    \E s \in Sessions :
        /\ Returned(s)
        /\ "offer_a" \in DraftedSlots(s)
        /\ draft[s].obj.offer_a.strategy = "cash"
        /\ "purchase_price" \notin DOMAIN draft[s].obj.offer_a
        /\ response[s].body.offer_a.headline = "A clean, fast close"

\* C7 (missing purchase_price): a cash offer drafted without purchase_price
\* makes neither generate-offers nor the export raise; it is returned with
\* cash_at_closing = -(mortgage_balance + arrears) and, when that debt is
\* positive, flagged NOT_VIABLE.
C7_MissingPriceAbsorbed ==
    \A s \in Sessions : \A slot \in DraftedSlots(s) :
        LET drafted == draft[s].obj[slot]
            debt == inputs[s].property_data.mortgage_balance
                        + Get(inputs[s].property_data, "arrears", 0)
        IN  (pc[s] = "done" /\ drafted.strategy = "cash"
                /\ "purchase_price" \notin DOMAIN drafted)
            => /\ Returned(s)
               /\ response[s].body[slot].cash_at_closing = 0 - debt
               /\ debt > 0 => Get(response[s].body[slot], "viability_flag", "")
                                  = "NOT_VIABLE"
               /\ (DraftedSlots(s) = Slots) => ~ExportFailed(s)

\* C8 (malformed draft): when the drafting service's reply lacks offer_a or
\* offer_b, generate-offers fails and hands no OfferPair to the caller.
C8_MalformedDraftRejected ==
    \A s \in Sessions :
        (pc[s] = "done" /\ draft[s].kind = "object" /\ DraftedSlots(s) # Slots)
            => Rejected(s)

\* C9 (missing strategy): a request whose strategy1 or strategy2 is absent
\* or not a catalog key ends rejected, and the drafting service is never
\* called for it.
InvalidStrategy(data) ==
    \/ Get(data, "strategy1", NoneVal) \notin DOMAIN STRATEGIES
    \/ Get(data, "strategy2", NoneVal) \notin DOMAIN STRATEGIES

C9_MissingStrategyRejected ==
    \A s \in Sessions :
        (pc[s] # "idle" /\ InvalidStrategy(request[s]))
            => /\ Rejected(s)
               /\ draft_calls[s] = 0
               /\ draft[s] = NoContent
               /\ "error" \in DOMAIN response[s].body

C9_Witness ==
    \E s \in Sessions :
        /\ Rejected(s)
        /\ "strategy1" \in DOMAIN request[s]
        /\ request[s].strategy1 = "cash"
        /\ "strategy2" \notin DOMAIN request[s]
        /\ inputs[s] # EmptyDict
        /\ response[s].body.error = "None"

\* C10 (no retry): the drafting service is called at most once per request;
\* when that call errors or times out the request ends in an error response
\* whose message is the underlying cause, and no further call is made.
C10_NoRetry ==
    \A s \in Sessions :
        /\ draft_calls[s] <= 1
        /\ draft[s].kind = "raised"
              => /\ Rejected(s)
                 /\ draft_calls[s] = 1
                 /\ response[s].body.error = draft[s].obj.cause

C10_Witness ==
    \E s \in Sessions :
        /\ draft[s].kind = "raised"
        /\ draft[s].obj.cause = "Request timed out."
        /\ Rejected(s)

\* C11 (boundary): a returned cash offer whose purchase_price equals
\* mortgage_balance + arrears carries the cash_at_closing given by the 2%
\* term alone, that value is negative, and the offer is flagged NOT_VIABLE.
C11_BoundaryNotViable ==
    \A s \in Sessions : \A slot \in ReturnedSlots(s) :
        LET offer == response[s].body[slot]
            debt == inputs[s].property_data.mortgage_balance
                        + Get(inputs[s].property_data, "arrears", 0)
        IN  (offer.strategy = "cash" /\ "purchase_price" \in DOMAIN offer
                /\ offer.purchase_price = debt)
            => /\ offer.cash_at_closing = RoundHalfEven(0 - 2 * offer.purchase_price, 100)
               /\ offer.cash_at_closing < 0
               /\ Get(offer, "viability_flag", "") = "NOT_VIABLE"

\* C12 (drafted cash never trusted): had the drafting service written any
\* other cash_at_closing on a cash offer, everything else equal, the offer
\* returned would have been the same.
C12_DraftedCashIgnored ==
    \A s \in Sessions : \A slot \in ReturnedSlots(s) : \A cash \in DraftCash :
        response[s].body[slot].strategy = "cash"
            => add_metadata([draft[s].obj EXCEPT ![slot].cash_at_closing = cash],
                            inputs[s].property_data, inputs[s].seller_data, 1)[slot]
                   = response[s].body[slot]

\* C13 (closing costs not an input): a closing-cost figure supplied with the
\* request, or carried by PropertyData, changes neither the normalized
\* PropertyData nor the cash_at_closing and viability flag of a returned
\* cash offer.
SuppliedClosingCosts == {0, 9000}

C13_ClosingCostsIgnored ==
    \A s \in Sessions : \A slot \in ReturnedSlots(s) :
        \A costs \in SuppliedClosingCosts : \A now \in Clock :
            LET offer == response[s].body[slot]
                other == add_metadata(draft[s].obj,
                                      Put(inputs[s].property_data,
                                          "estimated_closing_costs", costs),
                                      inputs[s].seller_data, now)[slot]
                renormalized == extract_inputs(Put(request[s], "closing_costs",
                                                   JNum(costs)))
            IN  offer.strategy = "cash"
                    => /\ other.cash_at_closing = offer.cash_at_closing
                       /\ Get(other, "viability_flag", "")
                              = Get(offer, "viability_flag", "")
                       /\ renormalized.ok
                       /\ renormalized.val.property_data = inputs[s].property_data

C13_Witness ==
    \E s \in Sessions :
        /\ Returned(s)
        /\ "closing_costs" \in DOMAIN request[s]
        /\ "offer_a" \in ReturnedSlots(s)
        /\ response[s].body.offer_a.strategy = "cash"
        /\ "purchase_price" \in DOMAIN response[s].body.offer_a
        /\ response[s].body.offer_a.purchase_price = 268000
        /\ response[s].body.offer_a.cash_at_closing = 5000

\* C14 (viability branches): a returned cash offer with net >= 0 is VIABLE
\* and keeps the drafted investor_notes and presentation_script; with
\* net < 0 it is NOT_VIABLE, its presentation_script is replaced and its
\* investor_notes is a warning line followed by the drafted notes.
C14_ViabilityBranches ==
    \A s \in Sessions : \A slot \in ReturnedSlots(s) :
        LET offer == response[s].body[slot]
            drafted == draft[s].obj[slot]
        IN  (offer.strategy = "cash" /\ "purchase_price" \in DOMAIN offer)
            => IF NetTimes100(offer, inputs[s].property_data) >= 0
               THEN /\ Get(offer, "viability_flag", "") = "VIABLE"
                    /\ offer.investor_notes = drafted.investor_notes
                    /\ offer.presentation_script = drafted.presentation_script
               ELSE /\ Get(offer, "viability_flag", "") = "NOT_VIABLE"
                    /\ offer.presentation_script # drafted.presentation_script
                    /\ offer.investor_notes # drafted.investor_notes

\* C15 (normalization never fails on a numeric field): every request that is
\* handled gets fully populated structures, and each numeric field that is
\* absent or unparsable holds its default.
NumericDefaults ==
    {<<"weight1", 50>>, <<"weight2", 50>>, <<"arv", 0>>, <<"repairs", 0>>,
     <<"mortgage_balance", 0>>, <<"monthly_payment", 0>>,
     <<"motivation_score", 5>>, <<"cash_needed", 0>>,
     <<"max_offer_percent", 70>>, <<"min_profit", 20000>>,
     <<"available_cash", 10000>>}

Normalized(a, key) ==
    CASE key \in {"weight1", "weight2"} -> a[key]
      [] key \in {"arv", "repairs", "mortgage_balance", "monthly_payment"} ->
            a.property_data[key]
      [] key \in {"motivation_score", "cash_needed"} -> a.seller_data[key]
      [] OTHER -> a.investor_data[key]

Unparsable(v) == v.t = "null" \/ (v.t = "str" /\ ~IsNumeral(v.s))

C15_NormalizationTotal ==
    \A s \in Sessions :
        pc[s] # "idle"
            => /\ inputs[s] # EmptyDict
               /\ \A f \in NumericDefaults :
                    (f[1] \notin DOMAIN request[s] \/ Unparsable(request[s][f[1]]))
                        => Normalized(inputs[s], f[1]) = f[2]

\* C16 (currency fields non-negative): whenever normalization has produced
\* PropertyData, its ARV, repairs, mortgage balance and monthly payment are
\* all >= 0, even when the request carried negative numbers.
C16_CurrencyNonNegative ==
    \A s \in Sessions :
        inputs[s] # EmptyDict
            => /\ inputs[s].property_data.arv >= 0
               /\ inputs[s].property_data.repairs >= 0
               /\ inputs[s].property_data.mortgage_balance >= 0
               /\ inputs[s].property_data.monthly_payment >= 0

\* C17 (weights are independent): each weight is the one posted, or 50 when
\* absent; whatever the two weights sum to, the request is not rejected for
\* it and both weights reach the drafting prompt unchanged.
PostedWeight(data, key) ==
    IF key \notin DOMAIN data THEN 50
    ELSE IF data[key].t = "num" THEN data[key].n
    ELSE ParseNumeral(data[key].s)

C17_WeightsIndependent ==
    \A s \in Sessions :
        (pc[s] # "idle" /\ inputs[s] # EmptyDict)
            => /\ inputs[s].weight1 = PostedWeight(request[s], "weight1")
               /\ inputs[s].weight2 = PostedWeight(request[s], "weight2")
               /\ ~InvalidStrategy(request[s])
                    => /\ draft_calls[s] = 1
                       /\ prompt[s].offer_a
                            = OfferLine("A", STRATEGIES[request[s].strategy1].name,
                                        PostedWeight(request[s], "weight1"))
                       /\ prompt[s].offer_b
                            = OfferLine("B", STRATEGIES[request[s].strategy2].name,
                                        PostedWeight(request[s], "weight2"))

C17_Witness ==
    \E s \in Sessions :
        /\ pc[s] = "drafting"
        /\ "weight1" \in DOMAIN request[s] /\ request[s].weight1 = JNum(80)
        /\ "weight2" \in DOMAIN request[s] /\ request[s].weight2 = JNum(80)
        /\ inputs[s].weight1 = 80 /\ inputs[s].weight2 = 80
        /\ prompt[s].offer_b
             = "Offer B: Subject-To (Take Over Payments) (Weight: 80% - MORE attractive)"

\* C18 (metadata echo): every successful generate-offers response carries the
\* request's normalized ARV and motivation score and a generation timestamp,
\* also when the drafting reply already had keys of those names.
C18_MetadataEcho ==
    \A s \in Sessions :
        Returned(s)
            => /\ {"generated_at", "property_arv", "seller_motivation"}
                      \subseteq DOMAIN response[s].body
               /\ response[s].body.property_arv = inputs[s].property_data.arv
               /\ response[s].body.seller_motivation
                      = inputs[s].seller_data.motivation_score
               /\ \E t \in Clock : response[s].body.generated_at = isoformat(t)

C18_Witness ==
    \E s \in Sessions :
        /\ Returned(s)
        /\ "property_arv" \in DOMAIN draft[s].obj
        /\ draft[s].obj.property_arv = 1
        /\ draft[s].obj.generated_at = "yesterday"
        /\ response[s].body.property_arv = 300000
        /\ response[s].body.seller_motivation = 8

\* C19 (what the exporter reads): for each format and date, the sheet
\* rendered from a returned pair is the sheet rendered from the pair cut
\* down to headline, purchase_price, cash_at_closing, payment_structure,
\* timeline_days and seller_benefits of offer A and offer B, and the cash
\* figure on an exported sheet is the offer's own cash_at_closing.
ExportFields ==
    {"headline", "purchase_price", "cash_at_closing", "payment_structure",
     "timeline_days", "seller_benefits"}

CutDown(pair) ==
    [k \in Slots \cap DOMAIN pair |->
        [f \in ExportFields \cap DOMAIN pair[k] |-> pair[k][f]]]

SameOutcome(a, b) ==
    /\ a.ok = b.ok
    /\ a.ok => a.val = b.val
    /\ ~a.ok => a.err = b.err

C19_ExportReadsSixFields ==
    \A s \in Sessions :
        /\ Returned(s)
              => \A format \in ExportFormats \ {NoneVal} : \A now \in Clock :
                    SameOutcome(generate_pdf(response[s].body, format, now),
                                generate_pdf(CutDown(response[s].body), format, now))
        /\ Exported(s)
              => \A slot \in Slots :
                    CashShown(s, slot)
                        = "$" \o FormatMoney(response[s].body[slot].cash_at_closing)

C19_Witness ==
    \E s \in Sessions :
        /\ Exported(s)
        /\ response[s].body.offer_a.strategy = "cash"
        /\ response[s].body.offer_a.cash_at_closing = 0 - 360
        /\ response[s].body.offer_a.purchase_price = 268000
        /\ CashShown(s, "offer_a") = "$-360"
        /\ CutDown(response[s].body) # response[s].body

\* C20 (catalog is fixed): in every reachable state the strategy catalog is
\* the five initial entries, unaltered; the strategies listing returns
\* exactly them; and looking up any other tag fails.
C20_CatalogFixed ==
    /\ catalog = STRATEGIES
    /\ DOMAIN catalog
          = {"cash", "subject_to", "lease_option", "seller_financing", "hybrid"}
    /\ \A tag \in StrategyChoices \ DOMAIN STRATEGIES : ~GetItem(catalog, tag).ok
    /\ \A s \in Sessions :
          strategies_response[s].status = 200
              => strategies_response[s].body = STRATEGIES

C20_Witness ==
    \E s \in Sessions :
        /\ strategies_response[s].status = 200
        /\ Exported(s)
        /\ DOMAIN strategies_response[s].body = DOMAIN STRATEGIES

\* C21 (request isolation): with two generate-offers requests interleaved,
\* what each request holds and answers is what a request handled alone
\* computes from its own posted body, its own draft (or drafting failure)
\* and the clock reading of its own metadata step; nothing of the other
\* request enters it.
AnswerAlone(data, content, now) ==
    LET extracted == extract_inputs(data)
        built == IF extracted.ok THEN build_prompt(extracted.val)
                 ELSE Raise(extracted.err)
    IN  IF ~built.ok THEN generate_offers_except(built.err)
        ELSE IF content.kind = "raised"
             THEN generate_offers_except(content.obj.cause)
             ELSE LET result == parse_response(content,
                                    extracted.val.property_data,
                                    extracted.val.seller_data, now)
                  IN  IF result.ok THEN jsonify_ok(result.val)
                      ELSE generate_offers_except(result.err)

C21_RequestIsolation ==
    \A s \in DOMAIN pc :
        /\ pc[s] = "drafting"
              => /\ inputs[s] = extract_inputs(request[s]).val
                 /\ prompt[s] = build_prompt(inputs[s]).val
                 /\ response[s] = NoResponse
        /\ pc[s] = "done"
              => \E now \in Clock :
                    response[s] = AnswerAlone(request[s], draft[s], now)

C21_Witness ==
    /\ DOMAIN pc = SessionPair
    /\ Returned("s1") /\ Returned("s2")
    /\ request["s1"] # request["s2"]
    /\ draft["s1"] # draft["s2"]
    /\ response["s1"].body.property_arv = 300000
    /\ response["s2"].body.property_arv = 180000
    /\ response["s1"].body.seller_motivation # response["s2"].body.seller_motivation

\* C22 (normalized inputs are frozen): from the end of normalization to the
\* end of the request, the property, seller and investor structures are the
\* ones normalization built from the posted body; drafting and the metadata
\* step leave every field as it was.
C22_InputsImmutable ==
    \A s \in DOMAIN pc :
        (pc[s] # "idle" /\ extract_inputs(request[s]).ok)
            => /\ inputs[s] = extract_inputs(request[s]).val
               /\ \A k \in {"property_data", "seller_data", "investor_data"} :
                     inputs[s][k] = extract_inputs(request[s]).val[k]

C22_Witness ==
    \E s \in Sessions :
        /\ Returned(s)
        /\ request[s] = Put(BaseRequest, "monthly_payment", JNum(0 - 850))
        /\ inputs[s].property_data.monthly_payment = 0 - 850
        /\ inputs[s].seller_data.motivation_score = 5
        /\ response[s].body.property_arv = inputs[s].property_data.arv
        /\ response[s].body.seller_motivation = 5

\* C23 (requested strategy honoured): in every returned pair, offer A's
\* strategy tag is the requested strategy1 and offer B's is the requested
\* strategy2, whatever tags the draft carried.
RequestedStrategy(s, slot) ==
    IF slot = "offer_a" THEN request[s].strategy1 ELSE request[s].strategy2

C23_StrategyHonoured ==
    \A s \in Sessions :
        \A slot \in ReturnedSlots(s) :
            response[s].body[slot].strategy = RequestedStrategy(s, slot)

\* C24 (one whole response per request): a generate-offers or export-pdf
\* request has no response while it runs and exactly one when it has ended;
\* that response is either the whole success payload with status 200, or
\* status 500 with a body holding nothing but the message of the step that
\* failed (input parsing, catalog lookup, drafting call, parsing the draft,
\* PDF rendering); a failure never leaves offers or a PDF in the response.
MetadataKeys == {"generated_at", "property_arv", "seller_motivation"}

FailureOf(data, content) ==
    LET extracted == extract_inputs(data)
        built == IF extracted.ok THEN build_prompt(extracted.val)
                 ELSE Raise(extracted.err)
        parsed == parse_response(content, extracted.val.property_data,
                                 extracted.val.seller_data, 1)
    IN  IF ~built.ok THEN built.err
        ELSE IF content.kind = "raised" THEN content.obj.cause
        ELSE IF ~parsed.ok THEN parsed.err
        ELSE ""

C24_OneResponse ==
    \A s \in Sessions :
        /\ (pc[s] = "done") <=> (response[s] # NoResponse)
        /\ (export_pc[s] = "done") <=> (export_response[s] # NoResponse)
        /\ pc[s] = "done"
              => IF FailureOf(request[s], draft[s]) = ""
                 THEN /\ response[s].status = 200
                      /\ DOMAIN response[s].body = DOMAIN draft[s].obj \cup MetadataKeys
                      /\ \A k \in DOMAIN draft[s].obj \ MetadataKeys :
                            response[s].body[k] = draft[s].obj[k]
                 ELSE response[s]
                        = [status |-> 500,
                           body |-> [error |-> FailureOf(request[s], draft[s])]]
        /\ export_pc[s] = "done"
              => LET rendered == generate_pdf(response[s].body, "branded", 1)
                 IN  IF rendered.ok
                     THEN /\ export_response[s].status = 200
                          /\ DOMAIN export_response[s].body
                                = {"pdf", "mimetype", "download_name"}
                          /\ \E format \in ExportFormats \ {NoneVal}, now \in Clock :
                                export_response[s].body.pdf
                                    = generate_pdf(response[s].body, format, now).val
                     ELSE export_response[s]
                            = [status |-> 500, body |-> [error |-> rendered.err]]

C24_Witness ==
    \E s \in Sessions :
        /\ ExportFailed(s)
        /\ Returned(s)
        /\ "offer_b" \notin DOMAIN response[s].body
        /\ export_response[s].body = [error |-> "'offer_b'"]

C24_WitnessDraftingFailed ==
    \E s \in Sessions :
        /\ Rejected(s)
        /\ draft[s].kind = "raised"
        /\ response[s].body = [error |-> "Request timed out."]

\* C25 (file name tells the layout): whatever the format field of an export
\* request was, the download name carries "branded" exactly when the sheet
\* has the branded title, date line and colours, and carries "pro" exactly
\* when the sheet has the unbranded layout.
NameSays(s, word) ==
    \E now \in Clock :
        export_response[s].body.download_name
            = "offer_comparison_" \o word \o "_" \o strftime_compact(now) \o ".pdf"

RenderedBranded(s) ==
    LET pdf == export_response[s].body.pdf
    IN  /\ pdf[1].text = "AI Offer Creator - Real Estate Commando"
        /\ pdf[1].colour = "#2e7d32"
        /\ pdf[2].kind = "Paragraph"
        /\ \E now \in Clock : pdf[2].text = "Generated: " \o strftime_long(now)
        /\ \A i \in 1..Len(pdf) : pdf[i].style = "CustomHeading" => pdf[i].colour = "#2e7d32"

RenderedUnbranded(s) ==
    LET pdf == export_response[s].body.pdf
    IN  /\ pdf[1].text = "Property Offer Comparison"
        /\ pdf[1].colour = "#1a1a1a"
        /\ pdf[2].kind = "Spacer"
        /\ \A i \in 1..Len(pdf) : pdf[i].style = "CustomHeading" => pdf[i].colour = "#333333"

C25_NameMatchesLayout ==
    \A s \in Sessions :
        Exported(s)
            => /\ NameSays(s, "branded") <=> RenderedBranded(s)
               /\ NameSays(s, "pro") <=> RenderedUnbranded(s)

====
